---- MODULE Spec2Model ----
(***************************************************************************)
(* Game-Name-To-Steam-App-ID (src/index.js): the gameNames pipeline.       *)
(*                                                                         *)
(* A string is a sequence of one-character strings, so that bigrams,       *)
(* lower-casing and whitespace removal are computed on its characters.     *)
(* A similarity rating is a fraction [n, d] in lowest terms.               *)
(* A JavaScript object is the sequence of its <<key, value>> properties in *)
(* creation order; its enumeration order (Object.keys, Object.entries,     *)
(* JSON.stringify) is computed by OwnKeys.                                 *)
(***************************************************************************)
EXTENDS Integers, Sequences, FiniteSets, TLC

(***************************************************************************)
(* Bounds                                                                  *)
(***************************************************************************)
MaxCatalog == 2   \* entries in the fetched catalog
MaxQueries == 2   \* names in the input file
MaxStrLen == 3    \* characters of a string handed to the similarity metric

(***************************************************************************)
(* Strings                                                                 *)
(***************************************************************************)
Whitespace == {" "}
Digits == {"0", "1", "2", "3", "4", "5", "6", "7", "8", "9"}

\* String.prototype.toLowerCase on one character
LowerChar(c) ==
    CASE c = "A" -> "a"
      [] c = "B" -> "b"
      [] c = "C" -> "c"
      [] OTHER -> c

ToLowerCaseIdentity(s) == s

\* game.toLowerCase(), app.name.toLowerCase()
ToLowerCase(s) == [i \in 1..Len(s) |-> LowerChar(s[i])]

IsWs(c) == c \in Whitespace
NotWs(c) == ~IsWs(c)

\* first.replace(/\s+/g, '')
StripWhitespace(s) == SelectSeq(s, NotWs)

(***************************************************************************)
(* Fractions                                                               *)
(***************************************************************************)
RECURSIVE GCD(_, _)
GCD(a, b) == IF b = 0 THEN a ELSE GCD(b, a % b)

Rat(n, d) == LET g == GCD(n, d) IN [n |-> n \div g, d |-> d \div g]
Zero == Rat(0, 1)
One == Rat(1, 1)
RatGE(a, b) == a.n * b.d >= b.n * a.d
RatGT(a, b) == a.n * b.d > b.n * a.d

(***************************************************************************)
(* string-similarity: compareTwoStrings and findBestMatch                  *)
(***************************************************************************)
Bigram(s, i) == <<s[i], s[i + 1]>>

\* the Map of the first string's bigrams to their counts
RECURSIVE FirstBigrams(_, _, _)
FirstBigrams(first, i, map) ==
    IF i > Len(first) - 1 THEN map
    ELSE LET bg == Bigram(first, i)
             count == IF bg \in DOMAIN map THEN map[bg] + 1 ELSE 1
         IN FirstBigrams(first, i + 1,
                [b \in DOMAIN map \cup {bg} |-> IF b = bg THEN count ELSE map[b]])

\* the loop over the second string's bigrams, consuming the counts
RECURSIVE IntersectionSize(_, _, _, _)
IntersectionSize(second, i, map, size) ==
    IF i > Len(second) - 1 THEN size
    ELSE LET bg == Bigram(second, i)
             count == IF bg \in DOMAIN map THEN map[bg] ELSE 0
         IN IF count > 0
            THEN IntersectionSize(second, i + 1, [map EXCEPT ![bg] = count - 1], size + 1)
            ELSE IntersectionSize(second, i + 1, map, size)

EmptyMap == [b \in {} |-> 0]

CompareTwoStringsNoIdentity(a, b) ==
    LET first == StripWhitespace(a)
        second == StripWhitespace(b)
    IN IF Len(first) < 2 \/ Len(second) < 2 THEN Zero
       ELSE Rat(2 * IntersectionSize(second, 1, FirstBigrams(first, 1, EmptyMap), 0),
                Len(first) + Len(second) - 2)

\* stringSimilarity.compareTwoStrings(first, second)
CompareTwoStrings(a, b) ==
    LET first == StripWhitespace(a)
        second == StripWhitespace(b)
    IN IF first = second THEN One
       ELSE IF Len(first) < 2 \/ Len(second) < 2 THEN Zero
       ELSE Rat(2 * IntersectionSize(second, 1, FirstBigrams(first, 1, EmptyMap), 0),
                Len(first) + Len(second) - 2)

\* the ratings array of findBestMatch
Ratings(mainString, targetStrings) ==
    [i \in 1..Len(targetStrings) |-> CompareTwoStrings(mainString, targetStrings[i])]

RECURSIVE BestMatchIndexLast(_, _, _)
BestMatchIndexLast(ratings, i, best) ==
    IF i > Len(ratings) THEN best
    ELSE BestMatchIndexLast(ratings, i + 1,
            IF RatGE(ratings[i], ratings[best]) THEN i ELSE best)

\* the loop of findBestMatch: a later target replaces the best one only
\* when its rating is strictly greater
RECURSIVE BestMatchIndex(_, _, _)
BestMatchIndex(ratings, i, best) ==
    IF i > Len(ratings) THEN best
    ELSE BestMatchIndex(ratings, i + 1,
            IF RatGT(ratings[i], ratings[best]) THEN i ELSE best)

\* areArgsValid: findBestMatch throws on an empty target array
AreArgsValid(targetStrings) == Len(targetStrings) > 0

\* stringSimilarity.findBestMatch(mainString, targetStrings), indices from 1
FindBestMatch(mainString, targetStrings) ==
    LET ratings == Ratings(mainString, targetStrings)
        idx == BestMatchIndex(ratings, 1, 1)
    IN [bestMatchIndex |-> idx, rating |-> ratings[idx]]

(***************************************************************************)
(* JavaScript objects and arrays                                           *)
(***************************************************************************)
EmptyObject == <<>>

ObjHas(obj, key) == \E i \in 1..Len(obj) : obj[i][1] = key

ObjGet(obj, key) == obj[CHOOSE i \in 1..Len(obj) : obj[i][1] = key][2]

ObjSetAlwaysAppends(obj, key, value) == Append(obj, <<key, value>>)

\* obj[key] = value: an existing property keeps its place, a new one is
\* created last
ObjSet(obj, key, value) ==
    IF ObjHas(obj, key)
    THEN [i \in 1..Len(obj) |-> IF obj[i][1] = key THEN <<key, value>> ELSE obj[i]]
    ELSE Append(obj, <<key, value>>)

\* a property key that is a canonical array index ("0", "7", "42")
IsArrayIndex(key) ==
    /\ Len(key) >= 1
    /\ \A i \in 1..Len(key) : key[i] \in Digits
    /\ (Len(key) = 1 \/ key[1] # "0")

DigitVal(c) ==
    CASE c = "0" -> 0 [] c = "1" -> 1 [] c = "2" -> 2 [] c = "3" -> 3
      [] c = "4" -> 4 [] c = "5" -> 5 [] c = "6" -> 6 [] c = "7" -> 7
      [] c = "8" -> 8 [] c = "9" -> 9

RECURSIVE NumVal(_)
NumVal(key) ==
    IF Len(key) = 0 THEN 0
    ELSE 10 * NumVal(SubSeq(key, 1, Len(key) - 1)) + DigitVal(key[Len(key)])

RECURSIVE Ascending(_)
Ascending(keys) ==
    IF keys = {} THEN <<>>
    ELSE LET least == CHOOSE k \in keys : \A other \in keys : NumVal(k) <= NumVal(other)
         IN <<least>> \o Ascending(keys \ {least})

CreationOrder(obj) == [i \in 1..Len(obj) |-> obj[i][1]]

NotArrayIndex(key) == ~IsArrayIndex(key)

\* OrdinaryOwnPropertyKeys: array-index keys in ascending numeric order,
\* then the other string keys in creation order
OwnKeys(obj) ==
    Ascending({obj[i][1] : i \in {j \in 1..Len(obj) : IsArrayIndex(obj[j][1])}})
        \o SelectSeq(CreationOrder(obj), NotArrayIndex)

\* Object.keys(obj).length
KeyCount(obj) == Len(OwnKeys(obj))

\* Object.entries(obj)
Entries(obj) ==
    LET keys == OwnKeys(obj)
    IN [i \in 1..Len(keys) |-> <<keys[i], ObjGet(obj, keys[i])>>]

\* Object.fromEntries(entries)
RECURSIVE FromEntries(_)
FromEntries(entries) ==
    IF Len(entries) = 0 THEN EmptyObject
    ELSE LET last == entries[Len(entries)]
         IN ObjSet(FromEntries(SubSeq(entries, 1, Len(entries) - 1)), last[1], last[2])

\* JSON.stringify(obj, null, 2): the properties in enumeration order
Stringify(obj) == Entries(obj)

\* ([, a], [, b]) => b.similarity - a.similarity, as a sign
CompareSimilarity(a, b) ==
    IF RatGT(b[2].similarity, a[2].similarity) THEN 1
    ELSE IF RatGT(a[2].similarity, b[2].similarity) THEN -1
    ELSE 0

\* place of a new element in a sorted array: behind every element that the
\* comparator does not order after it
RECURSIVE InsertSorted(_, _)
InsertSorted(sorted, e) ==
    IF Len(sorted) = 0 THEN <<e>>
    ELSE IF CompareSimilarity(sorted[Len(sorted)], e) <= 0 THEN Append(sorted, e)
    ELSE Append(InsertSorted(SubSeq(sorted, 1, Len(sorted) - 1), e), sorted[Len(sorted)])

\* Array.prototype.sort with CompareSimilarity (a stable sort)
RECURSIVE SortBySimilarity(_)
SortBySimilarity(entries) ==
    IF Len(entries) = 0 THEN <<>>
    ELSE InsertSorted(SortBySimilarity(SubSeq(entries, 1, Len(entries) - 1)),
                      entries[Len(entries)])

(***************************************************************************)
(* findSteamAppIdsFullMatch                                                *)
(***************************************************************************)
FullMatchesFirstOnly(steamApps, game) ==
    LET all == SelectSeq(steamApps, LAMBDA app : app.name = game)
    IN IF Len(all) > 1 THEN SubSeq(all, 1, 1) ELSE all

\* Object.values(steamApps).filter((app) => (app.name === game))
FullMatches(steamApps, game) == SelectSeq(steamApps, LAMBDA app : app.name = game)

\* fullMatches.map((app) => app.appid)
AppIdsOf(fullMatches) == [i \in 1..Len(fullMatches) |-> fullMatches[i].appid]

FullMatchStepKeepsRemaining(acc, game, steamApps) ==
    LET fullMatches == FullMatches(steamApps, game)
    IN IF Len(fullMatches) = 1
       THEN [acc EXCEPT !.single = ObjSet(@, game, fullMatches[1].appid),
                        !.remaining = Append(@, game)]
       ELSE IF Len(fullMatches) > 1
       THEN [acc EXCEPT !.multiple = ObjSet(@, game, AppIdsOf(fullMatches))]
       ELSE [acc EXCEPT !.remaining = Append(@, game)]

\* the body of the loop over gameNames
FullMatchStep(acc, game, steamApps) ==
    LET fullMatches == FullMatches(steamApps, game)
    IN IF Len(fullMatches) = 1
       THEN [acc EXCEPT !.single = ObjSet(@, game, fullMatches[1].appid)]
       ELSE IF Len(fullMatches) > 1
       THEN [acc EXCEPT !.multiple = ObjSet(@, game, AppIdsOf(fullMatches))]
       ELSE [acc EXCEPT !.remaining = Append(@, game)]

RECURSIVE FullMatchLoop(_, _, _, _)
FullMatchLoop(games, i, steamApps, acc) ==
    IF i > Len(games) THEN acc
    ELSE FullMatchLoop(games, i + 1, steamApps, FullMatchStep(acc, games[i], steamApps))

\* { steamIDsSingleFullMatch, steamIDsMultipleFullMatches, remainingGameNames }
FindSteamAppIdsFullMatch(games, steamApps) ==
    FullMatchLoop(games, 1, steamApps,
        [single |-> EmptyObject, multiple |-> EmptyObject, remaining |-> <<>>])

(***************************************************************************)
(* findSteamAppIdsBestMatch                                                *)
(***************************************************************************)
PartialMatchThresholdReadmeDefault(config) ==
    IF config.partialMatchThreshold.present /\ config.partialMatchThreshold.value # Zero
    THEN config.partialMatchThreshold.value
    ELSE Rat(4, 5)

\* let partialMatchThreshold = 0; if (CONFIG.partialMatchThreshold) { ... }
PartialMatchThreshold(config) ==
    IF config.partialMatchThreshold.present /\ config.partialMatchThreshold.value # Zero
    THEN config.partialMatchThreshold.value
    ELSE Zero

AcceptedStrict(rating, threshold) == RatGT(rating, threshold)

\* bestMatch.bestMatch.rating >= partialMatchThreshold
Accepted(rating, threshold) == RatGE(rating, threshold)

\* steamApps.map((app) => app.name.toLowerCase())
LowercaseNames(steamApps) == [i \in 1..Len(steamApps) |-> ToLowerCase(steamApps[i].name)]

\* gameNames.map((game) => game.toLowerCase())
LowercaseGames(games) == [i \in 1..Len(games) |-> ToLowerCase(games[i])]

\* the value stored under steamIDsBestMatch[gameNames[i]]
BestMatchEntry(steamApps, steamAppsLowercase, bestMatch) ==
    [appId |-> steamApps[bestMatch.bestMatchIndex].appid,
     similarity |-> bestMatch.rating,
     steamName |-> steamApps[bestMatch.bestMatchIndex].name]

\* the body of the loop over gameNamesLowercase
BestMatchStep(acc, i, games, steamApps, threshold) ==
    LET steamAppsLowercase == LowercaseNames(steamApps)
        bestMatch == FindBestMatch(LowercaseGames(games)[i], steamAppsLowercase)
    IN IF Accepted(bestMatch.rating, threshold)
       THEN [acc EXCEPT !.best = ObjSet(@, games[i],
                                   BestMatchEntry(steamApps, steamAppsLowercase, bestMatch))]
       ELSE [acc EXCEPT !.noMatch = Append(@, games[i])]

RECURSIVE BestMatchLoop(_, _, _, _, _)
BestMatchLoop(games, i, steamApps, threshold, acc) ==
    IF i > Len(games) THEN acc
    ELSE BestMatchLoop(games, i + 1, steamApps, threshold,
            BestMatchStep(acc, i, games, steamApps, threshold))

\* Object.fromEntries(Object.entries(steamIDsBestMatch).sort(...))
SortedBestMatch(best) == FromEntries(SortBySimilarity(Entries(best)))

\* the first iteration calls findBestMatch, which throws on an empty catalog
BestMatchThrows(games, steamApps) ==
    Len(games) > 0 /\ ~AreArgsValid(LowercaseNames(steamApps))

\* { steamIDsBestMatch, steamIDsNoMatch }
FindSteamAppIdsBestMatch(games, steamApps, config) ==
    LET acc == BestMatchLoop(games, 1, steamApps, PartialMatchThreshold(config),
                   [best |-> EmptyObject, noMatch |-> <<>>])
    IN [best |-> SortedBestMatch(acc.best), noMatch |-> acc.noMatch]

(***************************************************************************)
(* The run: configuration, main, fetchSteamApps, importGameNames           *)
(***************************************************************************)
VARIABLES
    pc,                           \* the statement the run is at
    CONFIG,                       \* var CONFIG
    steamApps,                    \* const steamApps in main
    inputNames,                   \* what importGameNames returned
    gameNames,                    \* let gameNames in main
    steamIDsSingleFullMatch,
    steamIDsMultipleFullMatches,
    steamIDsBestMatch,
    steamIDsNoMatch,
    output,                       \* the files under ./output
    exitCode,                     \* the process exit code, -1 while running
    log,                          \* the phases performed, in order
    sim,                          \* one call of the similarity metric
    stderr                        \* the diagnostics printed

vars == <<pc, CONFIG, steamApps, inputNames, gameNames, steamIDsSingleFullMatch,
          steamIDsMultipleFullMatches, steamIDsBestMatch, steamIDsNoMatch,
          output, exitCode, log, sim, stderr>>

\* game and catalog names the inputs are drawn from
Names == { <<"A", "b">>, <<"A", "B">>, <<"a", "b", "c">>, <<"1">> }

RECURSIVE SeqsUpTo(_, _)
SeqsUpTo(S, n) ==
    IF n = 0 THEN {<<>>}
    ELSE LET shorter == SeqsUpTo(S, n - 1)
         IN shorter \cup {Append(q, x) : q \in {r \in shorter : Len(r) = n - 1}, x \in S}

\* data.applist.apps: every entry has its own appid, and the catalog is not
\* ordered by it
Apps(names) ==
    [i \in 1..Len(names) |-> [name |-> names[i], appid |-> Len(names) + 1 - i]]

Catalogs == {Apps(names) : names \in SeqsUpTo(Names, MaxCatalog)}

\* gameNames.split(CONFIG.inputFile.delimiter): at least one element
QueryLists == SeqsUpTo(Names, MaxQueries) \ {<<>>}

Undefined == [undefined |-> TRUE]
Absent == [present |-> FALSE, value |-> Zero]
Given(n, d) == [present |-> TRUE, value |-> Rat(n, d)]

\* the contents config.json can have
ConfigFiles ==
    [onlyFullMatches : BOOLEAN,
     partialMatchThreshold : {Absent, Given(0, 1), Given(2, 3), Given(1, 1), Given(3, 2)},
     fileType : {"txt", "json"}]

\* config.schema.json: the threshold must be between 0 and 1
SchemaValid(config) ==
    config.partialMatchThreshold.present =>
        /\ RatGE(config.partialMatchThreshold.value, Zero)
        /\ RatGE(One, config.partialMatchThreshold.value)

SupportedFileTypes == {"csv", "txt"}

NotWritten == [written |-> FALSE, content |-> <<>>]
Written(content) == [written |-> TRUE, content |-> content]

NoCall == [first |-> <<>>, second |-> <<>>, rating |-> Zero]

Init ==
    /\ pc = "loadConfig"
    /\ CONFIG = Undefined
    /\ steamApps = <<>>
    /\ inputNames = <<>>
    /\ gameNames = <<>>
    /\ steamIDsSingleFullMatch = EmptyObject
    /\ steamIDsMultipleFullMatches = EmptyObject
    /\ steamIDsBestMatch = EmptyObject
    /\ steamIDsNoMatch = <<>>
    /\ output = [fullMatches |-> NotWritten, multipleFullMatches |-> NotWritten,
                 bestMatch |-> NotWritten, noMatch |-> NotWritten]
    /\ exitCode = -1
    /\ log = <<>>
    /\ sim = NoCall
    /\ stderr = <<>>

SkipsBestMatchNever(config) == FALSE

\* line 83: if (!CONFIG.onlyFullMatches)
SkipsBestMatch(config) == config.onlyFullMatches

MainFlowWritesLast(at, config) ==
    CASE at = "loadConfig" -> "validateConfig"
      [] at = "validateConfig" -> "fetchSteamApps"
      [] at = "fetchSteamApps" -> "importGameNames"
      [] at = "importGameNames" -> "fullMatch"
      [] at = "fullMatch" -> IF SkipsBestMatch(config) THEN "writeFullMatches" ELSE "bestMatch"
      [] at = "writeFullMatches" -> "done"
      [] at = "bestMatch" -> "writeBestMatch"
      [] at = "writeBestMatch" -> "writeFullMatches"

\* the statement that follows each step of the script and of main
MainFlow(at, config) ==
    CASE at = "loadConfig" -> "validateConfig"
      [] at = "validateConfig" -> "fetchSteamApps"
      [] at = "fetchSteamApps" -> "importGameNames"
      [] at = "importGameNames" -> "fullMatch"
      [] at = "fullMatch" -> "writeFullMatches"
      [] at = "writeFullMatches" -> IF SkipsBestMatch(config) THEN "done" ELSE "bestMatch"
      [] at = "bestMatch" -> "writeBestMatch"
      [] at = "writeBestMatch" -> "done"

\* console.error(...), or the runtime's report of an uncaught exception
Report(message) == stderr' = Append(stderr, message)

ExitZero(code) ==
    /\ pc' = "exited"
    /\ exitCode' = 0

\* process.exit(1), or the end of the process on an uncaught exception
Exit(code) ==
    /\ pc' = "exited"
    /\ exitCode' = code

\* lines 23-32: the configuration file is read and parsed
LoadConfig ==
    /\ pc = "loadConfig"
    /\ \E config \in ConfigFiles : CONFIG' = config
    /\ pc' = MainFlow(pc, CONFIG')
    /\ log' = Append(log, "loadConfig")
    /\ UNCHANGED <<sim, stderr, steamApps, inputNames, gameNames, steamIDsSingleFullMatch,
                   steamIDsMultipleFullMatches, steamIDsBestMatch, steamIDsNoMatch,
                   output, exitCode>>

\* lines 33-36: no configuration file, or one that is not JSON
LoadConfigFails ==
    /\ pc = "loadConfig"
    /\ Exit(1)
    /\ Report("Error loading configuration file")
    /\ log' = Append(log, "loadConfig")
    /\ UNCHANGED <<sim, CONFIG, steamApps, inputNames, gameNames, steamIDsSingleFullMatch,
                   steamIDsMultipleFullMatches, steamIDsBestMatch, steamIDsNoMatch,
                   output>>

\* lines 39-53: the configuration passes the schema
ValidateConfig ==
    /\ pc = "validateConfig"
    /\ SchemaValid(CONFIG)
    /\ pc' = MainFlow(pc, CONFIG)
    /\ log' = Append(log, "validateConfig")
    /\ UNCHANGED <<sim, stderr, CONFIG, steamApps, inputNames, gameNames, steamIDsSingleFullMatch,
                   steamIDsMultipleFullMatches, steamIDsBestMatch, steamIDsNoMatch,
                   output, exitCode>>

\* lines 43-46: the validator throws
ValidateConfigFails ==
    /\ pc = "validateConfig"
    /\ ~SchemaValid(CONFIG)
    /\ Exit(1)
    /\ Report("Error validating configuration file")
    /\ log' = Append(log, "validateConfig")
    /\ UNCHANGED <<sim, CONFIG, steamApps, inputNames, gameNames, steamIDsSingleFullMatch,
                   steamIDsMultipleFullMatches, steamIDsBestMatch, steamIDsNoMatch,
                   output>>

\* line 61: the catalog arrives
FetchSteamApps ==
    /\ pc = "fetchSteamApps"
    /\ \E apps \in Catalogs : steamApps' = apps
    /\ pc' = MainFlow(pc, CONFIG)
    /\ log' = Append(log, "fetchSteamApps")
    /\ UNCHANGED <<sim, stderr, CONFIG, inputNames, gameNames, steamIDsSingleFullMatch,
                   steamIDsMultipleFullMatches, steamIDsBestMatch, steamIDsNoMatch,
                   output, exitCode>>

\* line 61: fetch rejects or the response is not the expected JSON; the
\* rejection is not caught and ends the process
FetchSteamAppsFails ==
    /\ pc = "fetchSteamApps"
    /\ Exit(1)
    /\ Report("Uncaught")
    /\ log' = Append(log, "fetchSteamApps")
    /\ UNCHANGED <<sim, CONFIG, steamApps, inputNames, gameNames, steamIDsSingleFullMatch,
                   steamIDsMultipleFullMatches, steamIDsBestMatch, steamIDsNoMatch,
                   output>>

\* line 65: the input file is read and split
ImportGameNames ==
    /\ pc = "importGameNames"
    /\ CONFIG.fileType \in SupportedFileTypes
    /\ \E names \in QueryLists :
          /\ inputNames' = names
          /\ gameNames' = names
    /\ pc' = MainFlow(pc, CONFIG)
    /\ log' = Append(log, "importGameNames")
    /\ UNCHANGED <<sim, stderr, CONFIG, steamApps, steamIDsSingleFullMatch,
                   steamIDsMultipleFullMatches, steamIDsBestMatch, steamIDsNoMatch,
                   output, exitCode>>

\* lines 105-108
ImportUnsupportedFileType ==
    /\ pc = "importGameNames"
    /\ CONFIG.fileType \notin SupportedFileTypes
    /\ Exit(1)
    /\ Report("Error: Input file type not supported")
    /\ log' = Append(log, "importGameNames")
    /\ UNCHANGED <<sim, CONFIG, steamApps, inputNames, gameNames, steamIDsSingleFullMatch,
                   steamIDsMultipleFullMatches, steamIDsBestMatch, steamIDsNoMatch,
                   output>>

\* lines 110-116
ImportUnreadableFile ==
    /\ pc = "importGameNames"
    /\ CONFIG.fileType \in SupportedFileTypes
    /\ Exit(1)
    /\ Report("Error: Could not read input file.")
    /\ log' = Append(log, "importGameNames")
    /\ UNCHANGED <<sim, CONFIG, steamApps, inputNames, gameNames, steamIDsSingleFullMatch,
                   steamIDsMultipleFullMatches, steamIDsBestMatch, steamIDsNoMatch,
                   output>>

FullMatchKeepsGameNames ==
    /\ pc = "fullMatch"
    /\ LET result == FindSteamAppIdsFullMatch(gameNames, steamApps)
       IN /\ steamIDsSingleFullMatch' = result.single
          /\ steamIDsMultipleFullMatches' = result.multiple
          /\ gameNames' = gameNames
    /\ pc' = MainFlow(pc, CONFIG)
    /\ log' = Append(log, "fullMatch")
    /\ UNCHANGED <<sim, stderr, CONFIG, steamApps, inputNames, steamIDsBestMatch, steamIDsNoMatch,
                   output, exitCode>>

\* lines 69-70
FullMatch ==
    /\ pc = "fullMatch"
    /\ LET result == FindSteamAppIdsFullMatch(gameNames, steamApps)
       IN /\ steamIDsSingleFullMatch' = result.single
          /\ steamIDsMultipleFullMatches' = result.multiple
          /\ gameNames' = result.remaining
    /\ pc' = MainFlow(pc, CONFIG)
    /\ log' = Append(log, "fullMatch")
    /\ UNCHANGED <<sim, stderr, CONFIG, steamApps, inputNames, steamIDsBestMatch, steamIDsNoMatch,
                   output, exitCode>>

\* lines 73-83
WriteFullMatches ==
    /\ pc = "writeFullMatches"
    /\ output' = [output EXCEPT
          !.fullMatches =
              IF KeyCount(steamIDsSingleFullMatch) > 0
              THEN Written(Stringify(steamIDsSingleFullMatch)) ELSE @,
          !.multipleFullMatches =
              IF KeyCount(steamIDsMultipleFullMatches) > 0
              THEN Written(Stringify(steamIDsMultipleFullMatches)) ELSE @]
    /\ pc' = MainFlow(pc, CONFIG)
    /\ exitCode' = IF pc' = "done" THEN 0 ELSE exitCode
    /\ log' = Append(log, "writeFullMatches")
    /\ UNCHANGED <<sim, stderr, CONFIG, steamApps, inputNames, gameNames, steamIDsSingleFullMatch,
                   steamIDsMultipleFullMatches, steamIDsBestMatch, steamIDsNoMatch>>

\* line 85
BestMatch ==
    /\ pc = "bestMatch"
    /\ ~BestMatchThrows(gameNames, steamApps)
    /\ LET result == FindSteamAppIdsBestMatch(gameNames, steamApps, CONFIG)
       IN /\ steamIDsBestMatch' = result.best
          /\ steamIDsNoMatch' = result.noMatch
    /\ pc' = MainFlow(pc, CONFIG)
    /\ log' = Append(log, "bestMatch")
    /\ UNCHANGED <<sim, stderr, CONFIG, steamApps, inputNames, gameNames, steamIDsSingleFullMatch,
                   steamIDsMultipleFullMatches, output, exitCode>>

\* line 172 on an empty catalog: findBestMatch throws, nothing catches it
BestMatchFails ==
    /\ pc = "bestMatch"
    /\ BestMatchThrows(gameNames, steamApps)
    /\ Exit(1)
    /\ Report("Uncaught")
    /\ log' = Append(log, "bestMatch")
    /\ UNCHANGED <<sim, CONFIG, steamApps, inputNames, gameNames, steamIDsSingleFullMatch,
                   steamIDsMultipleFullMatches, steamIDsBestMatch, steamIDsNoMatch,
                   output>>

WriteBestMatchWhenNotEmpty ==
    /\ pc = "writeBestMatch"
    /\ output' = [output EXCEPT
          !.bestMatch = IF KeyCount(steamIDsBestMatch) > 0
                        THEN Written(Stringify(steamIDsBestMatch)) ELSE @,
          !.noMatch = IF Len(steamIDsNoMatch) > 0 THEN Written(steamIDsNoMatch) ELSE @]
    /\ pc' = MainFlow(pc, CONFIG)
    /\ exitCode' = IF pc' = "done" THEN 0 ELSE exitCode
    /\ log' = Append(log, "writeBestMatch")
    /\ UNCHANGED <<sim, stderr, CONFIG, steamApps, inputNames, gameNames, steamIDsSingleFullMatch,
                   steamIDsMultipleFullMatches, steamIDsBestMatch, steamIDsNoMatch>>

\* lines 88-94
WriteBestMatch ==
    /\ pc = "writeBestMatch"
    /\ output' = [output EXCEPT
          !.bestMatch = Written(Stringify(steamIDsBestMatch)),
          !.noMatch = IF Len(steamIDsNoMatch) > 0 THEN Written(steamIDsNoMatch) ELSE @]
    /\ pc' = MainFlow(pc, CONFIG)
    /\ exitCode' = IF pc' = "done" THEN 0 ELSE exitCode
    /\ log' = Append(log, "writeBestMatch")
    /\ UNCHANGED <<sim, stderr, CONFIG, steamApps, inputNames, gameNames, steamIDsSingleFullMatch,
                   steamIDsMultipleFullMatches, steamIDsBestMatch, steamIDsNoMatch>>

Next ==
    \/ LoadConfig
    \/ LoadConfigFails
    \/ ValidateConfig
    \/ ValidateConfigFails
    \/ FetchSteamApps
    \/ FetchSteamAppsFails
    \/ ImportGameNames
    \/ ImportUnsupportedFileType
    \/ ImportUnreadableFile
    \/ FullMatch
    \/ WriteFullMatches
    \/ BestMatch
    \/ BestMatchFails
    \/ WriteBestMatch

Spec == Init /\ [][Next]_vars

(***************************************************************************)
(* The similarity metric on its own: one comparison, as line 172 makes it  *)
(* on the lower-cased copies of lines 157-158                              *)
(***************************************************************************)
Alphabet == {"a", "b", "A", " "}
Strings == SeqsUpTo(Alphabet, MaxStrLen)

SimInit ==
    /\ pc = "compare"
    /\ CONFIG = Undefined
    /\ steamApps = <<>>
    /\ inputNames = <<>>
    /\ gameNames = <<>>
    /\ steamIDsSingleFullMatch = EmptyObject
    /\ steamIDsMultipleFullMatches = EmptyObject
    /\ steamIDsBestMatch = EmptyObject
    /\ steamIDsNoMatch = <<>>
    /\ output = [fullMatches |-> NotWritten, multipleFullMatches |-> NotWritten,
                 bestMatch |-> NotWritten, noMatch |-> NotWritten]
    /\ exitCode = -1
    /\ log = <<>>
    /\ stderr = <<>>
    /\ \E first \in Strings, second \in Strings :
          sim = [first |-> first, second |-> second, rating |-> Zero]

\* compareTwoStrings(gameNamesLowercase[i], steamAppsLowercase[j])
Compare ==
    /\ pc = "compare"
    /\ sim' = [sim EXCEPT
          !.rating = CompareTwoStrings(ToLowerCase(sim.first), ToLowerCase(sim.second))]
    /\ pc' = "compared"
    /\ UNCHANGED <<stderr, CONFIG, steamApps, inputNames, gameNames, steamIDsSingleFullMatch,
                   steamIDsMultipleFullMatches, steamIDsBestMatch, steamIDsNoMatch,
                   output, exitCode, log>>

SimNext == Compare

SimSpec == SimInit /\ [][SimNext]_vars

(***************************************************************************)
(* Properties                                                              *)
(***************************************************************************)
\* the phase was entered, and it returned
Entered(phase) == \E i \in 1..Len(log) : log[i] = phase
Completed(phase) ==
    \E i \in 1..Len(log) : log[i] = phase /\ (i < Len(log) \/ pc # "exited")
\* the state findSteamAppIdsFullMatch and findSteamAppIdsBestMatch return in
AfterFullMatch == pc = "writeFullMatches"
AfterBestMatch == pc = "writeBestMatch"

SetOf(seq) == {seq[i] : i \in 1..Len(seq)}
Occurrences(seq, x) == Cardinality({i \in 1..Len(seq) : seq[i] = x})
FirstPos(seq, x) == CHOOSE i \in 1..Len(seq) : seq[i] = x /\ \A j \in 1..(i - 1) : seq[j] # x

\* the catalog positions whose name is exactly the given name
MatchingIndices(name) == {i \in 1..Len(steamApps) : steamApps[i].name = name}
\* the k-th of them in catalog order
KthMatch(name, k) ==
    CHOOSE i \in MatchingIndices(name) :
        Cardinality({j \in MatchingIndices(name) : j <= i}) = k

InExactlyOneGrouping(name) ==
    LET n == Cardinality(MatchingIndices(name))
        inSingle == ObjHas(steamIDsSingleFullMatch, name)
        inMultiple == ObjHas(steamIDsMultipleFullMatches, name)
        inRemaining == name \in SetOf(gameNames)
    IN /\ inSingle <=> n = 1
       /\ inMultiple <=> n > 1
       /\ inRemaining <=> n = 0

GroupedNames ==
    OwnKeys(steamIDsSingleFullMatch) \o OwnKeys(steamIDsMultipleFullMatches) \o gameNames

\* C1 as stated: after findSteamAppIdsFullMatch every query name is in
\* exactly one of unique-exact, ambiguous-exact and unmatched, according to
\* the number of catalog entries with that name, and the names of the three
\* groupings together are the query list, each name as often as it occurs
\* in the input.
C1_PartitionPerOccurrence ==
    AfterFullMatch =>
        /\ \A name \in SetOf(inputNames) : InExactlyOneGrouping(name)
        /\ \A name \in SetOf(inputNames) \cup SetOf(GroupedNames) :
              Occurrences(GroupedNames, name) = Occurrences(inputNames, name)

NoFullMatch(name) == MatchingIndices(name) = {}

\* C1 amended: after findSteamAppIdsFullMatch every query name is in exactly
\* one of the three groupings, the set of names of the three groupings is the
\* set of query names, a name-keyed grouping holds a name once however often
\* it occurs in the input, and the unmatched list holds the unmatched names
\* once per occurrence, in input order.
C1_Partition ==
    AfterFullMatch =>
        /\ \A name \in SetOf(inputNames) : InExactlyOneGrouping(name)
        /\ SetOf(GroupedNames) = SetOf(inputNames)
        /\ \A name \in SetOf(GroupedNames) :
              Occurrences(GroupedNames, name) =
                  IF NoFullMatch(name) THEN Occurrences(inputNames, name) ELSE 1
        /\ gameNames = SelectSeq(inputNames, NoFullMatch)

\* C1 witness: a name with one exact match occurs twice in the input, next
\* to nothing else
C1_Witness ==
    /\ AfterFullMatch
    /\ Len(inputNames) >= 2
    /\ inputNames[1] = inputNames[2]
    /\ ObjHas(steamIDsSingleFullMatch, inputNames[1])

\* C2: a query name that two or more catalog entries carry is mapped by the
\* ambiguous-exact grouping to the identifiers of exactly those entries, in
\* catalog order, and is not in the unique-exact grouping.
C2_AmbiguousComplete ==
    AfterFullMatch =>
        \A name \in SetOf(inputNames) :
            Cardinality(MatchingIndices(name)) >= 2 =>
                /\ ObjHas(steamIDsMultipleFullMatches, name)
                /\ ~ObjHas(steamIDsSingleFullMatch, name)
                /\ LET ids == ObjGet(steamIDsMultipleFullMatches, name)
                   IN /\ Len(ids) = Cardinality(MatchingIndices(name))
                      /\ \A k \in 1..Len(ids) : ids[k] = steamApps[KthMatch(name, k)].appid

\* C2 witness: a query name carried by two catalog entries, with another
\* entry in the catalog
C2_Witness ==
    /\ AfterFullMatch
    /\ \E name \in SetOf(inputNames) :
          /\ Cardinality(MatchingIndices(name)) >= 2
          /\ Len(ObjGet(steamIDsMultipleFullMatches, name)) >= 2

\* the threshold the configuration asks for
ConfiguredThreshold ==
    IF CONFIG.partialMatchThreshold.present THEN CONFIG.partialMatchThreshold.value ELSE Zero

\* the ratings of a query name against every catalog name, both lower-cased
Scores(name) ==
    [i \in 1..Len(steamApps) |->
        CompareTwoStrings(ToLowerCase(name), ToLowerCase(steamApps[i].name))]
IsMaximum(scores, i) == \A j \in DOMAIN scores : RatGE(scores[i], scores[j])
FirstMaximum(scores) ==
    CHOOSE i \in DOMAIN scores :
        IsMaximum(scores, i) /\ \A j \in 1..(i - 1) : ~IsMaximum(scores, j)
BestScore(name) == LET scores == Scores(name) IN scores[FirstMaximum(scores)]


\* C3: after findSteamAppIdsBestMatch a processed name is in the
\* similarity-match grouping if and only if its best score is at least the
\* threshold, and is otherwise in the no-match list, once per occurrence;
\* never in both.
C3_ThresholdInclusive ==
    AfterBestMatch =>
        /\ \A name \in SetOf(gameNames) :
              LET accepted == RatGE(BestScore(name), ConfiguredThreshold)
              IN /\ ObjHas(steamIDsBestMatch, name) <=> accepted
                 /\ name \in SetOf(steamIDsNoMatch) <=> ~accepted
                 /\ name \in SetOf(steamIDsNoMatch) =>
                       Occurrences(steamIDsNoMatch, name) = Occurrences(gameNames, name)
        /\ SetOf(steamIDsNoMatch) \subseteq SetOf(gameNames)
        /\ SetOf(OwnKeys(steamIDsBestMatch)) \subseteq SetOf(gameNames)

\* C3 witness: a name whose best score equals a threshold strictly between
\* 0 and 1 is accepted, next to a name that is rejected
C3_Witness ==
    /\ AfterBestMatch
    /\ RatGT(ConfiguredThreshold, Zero)
    /\ RatGT(One, ConfiguredThreshold)
    /\ \E name \in SetOf(gameNames) :
          /\ BestScore(name) = ConfiguredThreshold
          /\ ObjHas(steamIDsBestMatch, name)
    /\ steamIDsNoMatch # <<>>

\* C4: the match recorded for a processed name is the first catalog entry
\* of maximum score: its identifier, that score, and its name in original
\* casing, under the query name in original casing.
C4_BestEntry ==
    AfterBestMatch =>
        \A name \in SetOf(gameNames) :
            LET scores == Scores(name)
                first == FirstMaximum(scores)
            IN RatGE(scores[first], ConfiguredThreshold) =>
                  /\ ObjHas(steamIDsBestMatch, name)
                  /\ ObjGet(steamIDsBestMatch, name) =
                        [appId |-> steamApps[first].appid,
                         similarity |-> scores[first],
                         steamName |-> steamApps[first].name]

\* C4 witness: two catalog entries tie for the maximum, and the recorded
\* catalog name is not lower-case
C4_Witness ==
    /\ AfterBestMatch
    /\ \E name \in SetOf(OwnKeys(steamIDsBestMatch)) :
          /\ \E i, j \in 1..Len(steamApps) :
                i < j /\ IsMaximum(Scores(name), i) /\ IsMaximum(Scores(name), j)
          /\ ObjGet(steamIDsBestMatch, name).steamName
                # ToLowerCase(ObjGet(steamIDsBestMatch, name).steamName)
          /\ name # ToLowerCase(name)

\* C5 as stated: the similarity-match mapping that findSteamAppIdsBestMatch
\* returns, read in its key enumeration order, lists its entries by
\* descending similarity, entries of equal similarity in the order their
\* names first occur among the names processed.
C5_SortedDescending ==
    AfterBestMatch =>
        LET entries == Entries(steamIDsBestMatch)
        IN \A i, j \in 1..Len(entries) :
              i < j =>
                 /\ RatGE(entries[i][2].similarity, entries[j][2].similarity)
                 /\ entries[i][2].similarity = entries[j][2].similarity =>
                       FirstPos(gameNames, entries[i][1]) < FirstPos(gameNames, entries[j][1])

\* C6: a completed run with onlyFullMatches set never entered
\* findSteamAppIdsBestMatch, holds no similarity result, wrote neither the
\* similarity-match nor the no-match grouping, and wrote each exact-match
\* grouping that is not empty.
C6_OnlyFullMatches ==
    (pc = "done" /\ CONFIG.onlyFullMatches) =>
        /\ ~Entered("bestMatch")
        /\ ~Entered("writeBestMatch")
        /\ steamIDsBestMatch = EmptyObject
        /\ steamIDsNoMatch = <<>>
        /\ ~output.bestMatch.written
        /\ ~output.noMatch.written
        /\ output.fullMatches.written <=> steamIDsSingleFullMatch # EmptyObject
        /\ output.multipleFullMatches.written <=> steamIDsMultipleFullMatches # EmptyObject

\* C6 witness: a completed run with onlyFullMatches set that left a name
\* without an exact match and wrote an exact-match grouping
C6_Witness ==
    /\ pc = "done"
    /\ CONFIG.onlyFullMatches
    /\ gameNames # <<>>
    /\ output.fullMatches.written

\* two strings that differ in the case of their letters and in nothing else
DifferOnlyByCase(a, b) ==
    /\ a # b
    /\ Len(a) = Len(b)
    /\ \A i \in 1..Len(a) : LowerChar(a[i]) = LowerChar(b[i])

CaseVariantOnly(name) ==
    /\ \E i \in 1..Len(steamApps) : DifferOnlyByCase(name, steamApps[i].name)
    /\ \A i \in 1..Len(steamApps) : steamApps[i].name # name

\* C7: a query name that differs from a catalog name only by letter case,
\* and equals no catalog name, is in neither exact-match grouping and, once
\* similarity matching has run, is a similarity match of score 1, whatever
\* the threshold.
C7_CaseAsymmetry ==
    \A name \in SetOf(inputNames) :
        CaseVariantOnly(name) =>
            /\ Completed("fullMatch") =>
                  /\ ~ObjHas(steamIDsSingleFullMatch, name)
                  /\ ~ObjHas(steamIDsMultipleFullMatches, name)
            /\ Completed("bestMatch") =>
                  /\ ObjHas(steamIDsBestMatch, name)
                  /\ ObjGet(steamIDsBestMatch, name).similarity = One
                  /\ name \notin SetOf(steamIDsNoMatch)

\* C7 witness: such a name under the threshold 1, after both stages
C7_Witness ==
    /\ AfterBestMatch
    /\ ConfiguredThreshold = One
    /\ \E name \in SetOf(inputNames) :
          CaseVariantOnly(name) /\ ObjHas(steamIDsBestMatch, name)

C8_WitnessZero ==
    /\ AfterBestMatch
    /\ CONFIG.partialMatchThreshold = Given(0, 1)
    /\ \E name \in SetOf(gameNames) :
          /\ ObjHas(steamIDsBestMatch, name)
          /\ ObjGet(steamIDsBestMatch, name).similarity = Zero

\* the bigrams of a string, as a set of positions per bigram
BigramsOf(str) == {Bigram(str, i) : i \in 1..(Len(str) - 1)}
BigramCount(str, bg) == Cardinality({i \in 1..(Len(str) - 1) : Bigram(str, i) = bg})
Min(a, b) == IF a <= b THEN a ELSE b

RECURSIVE SumOver(_, _, _)
SumOver(bigrams, a, b) ==
    IF bigrams = {} THEN 0
    ELSE LET bg == CHOOSE x \in bigrams : TRUE
         IN Min(BigramCount(a, bg), BigramCount(b, bg)) + SumOver(bigrams \ {bg}, a, b)

\* |bigrams(A) intersected with bigrams(B)|, with multiplicity
Overlap(a, b) == SumOver(BigramsOf(a) \cap BigramsOf(b), a, b)

\* the properties of C9 for the strings a and b the metric is to compare,
\* with the rating the call gave and the rating of the swapped call
ScoreLaws(a, b, rating, swapped) ==
    /\ a = b => rating = One
    /\ RatGE(rating, Zero) /\ RatGE(One, rating)
    /\ rating = swapped
    /\ (a # b /\ (Len(a) < 2 \/ Len(b) < 2)) => rating = Zero
    /\ (a # b /\ Len(a) >= 2 /\ Len(b) >= 2) =>
          rating = Rat(2 * Overlap(a, b), (Len(a) - 1) + (Len(b) - 1))

Swapped == CompareTwoStrings(ToLowerCase(sim.second), ToLowerCase(sim.first))

\* C9 as stated: on the lower-cased strings A and B, the score is 1 for
\* A = B (also below 2 characters), lies in [0,1], is symmetric, is 0
\* when A and B differ and one has fewer than 2 characters, and is otherwise
\* 2 * |bigrams(A) and bigrams(B)| / (|bigrams(A)| + |bigrams(B)|).
C9_ScoreOnStrings ==
    pc = "compared" =>
        ScoreLaws(ToLowerCase(sim.first), ToLowerCase(sim.second), sim.rating, Swapped)

\* C9 amended: the same laws hold of the lower-cased strings with their
\* whitespace removed (the metric ignores whitespace): score 1 when these
\* are equal, 0 when they differ and one has fewer than 2 characters, the
\* bigram formula on them otherwise; the score lies in [0,1] and is
\* symmetric.
C9_ScoreIgnoringWhitespace ==
    pc = "compared" =>
        ScoreLaws(StripWhitespace(ToLowerCase(sim.first)),
                  StripWhitespace(ToLowerCase(sim.second)), sim.rating, Swapped)

\* C9 witness: two strings with a repeated bigram and whitespace, scored
\* strictly between 0 and 1
C9_Witness ==
    /\ pc = "compared"
    /\ \E i \in 1..Len(sim.first) : sim.first[i] \in Whitespace
    /\ \E i, j \in 1..(Len(sim.second) - 1) : i < j /\ Bigram(sim.second, i) = Bigram(sim.second, j)
    /\ RatGT(sim.rating, Zero)
    /\ RatGT(One, sim.rating)

\* C9 witness of the short strings: equal strings of one character
C9_WitnessShort ==
    /\ pc = "compared"
    /\ Len(sim.first) = 1
    /\ sim.first # sim.second
    /\ ToLowerCase(sim.first) = ToLowerCase(sim.second)
    /\ sim.rating = One

\* the phases of a run, in the order of the script
PhaseOrder ==
    <<"loadConfig", "validateConfig", "fetchSteamApps", "importGameNames",
      "fullMatch", "writeFullMatches", "bestMatch", "writeBestMatch">>

IsPrefix(short, long) ==
    /\ Len(short) <= Len(long)
    /\ \A i \in 1..Len(short) : short[i] = long[i]

Loaded == CONFIG # Undefined
AnyWritten ==
    \/ output.fullMatches.written
    \/ output.multipleFullMatches.written
    \/ output.bestMatch.written
    \/ output.noMatch.written

\* every phase is entered once, after the phase before it has returned, and
\* similarity matching is not entered when onlyFullMatches is set
PhasesInOrder ==
    /\ IsPrefix(log, PhaseOrder)
    /\ pc \notin {"done", "exited"} => pc = PhaseOrder[Len(log) + 1]
    /\ (Loaded /\ CONFIG.onlyFullMatches) => ~Entered("bestMatch")
    /\ pc = "done" =>
          log = IF CONFIG.onlyFullMatches THEN SubSeq(PhaseOrder, 1, 6) ELSE PhaseOrder
    /\ Completed("bestMatch") =>
          SetOf(OwnKeys(steamIDsBestMatch)) \cup SetOf(steamIDsNoMatch)
              = SetOf(SelectSeq(inputNames, NoFullMatch))

\* C10 as stated: the phases run in order, once each, and nothing is handed
\* to the writer before similarity matching has returned (unless
\* onlyFullMatches is set).
C10_WriterLast ==
    /\ PhasesInOrder
    /\ AnyWritten => (CONFIG.onlyFullMatches \/ Completed("bestMatch"))

\* C10 amended: the phases run in order, once each: load catalog, load
\* query names, exact matching, writing of the exact-match groupings that
\* are not empty, then (unless onlyFullMatches) similarity matching over the
\* names left unmatched and only then writing of the similarity-match and
\* no-match groupings.
C10_PhaseOrder ==
    /\ PhasesInOrder
    /\ (output.fullMatches.written \/ output.multipleFullMatches.written) =>
          Entered("writeFullMatches")
    /\ (output.bestMatch.written \/ output.noMatch.written) =>
          Completed("bestMatch") /\ Entered("writeBestMatch")
    /\ Entered("bestMatch") =>
          /\ output.fullMatches.written <=> steamIDsSingleFullMatch # EmptyObject
          /\ output.multipleFullMatches.written <=> steamIDsMultipleFullMatches # EmptyObject

\* C10 witness: a completed run that wrote an exact-match grouping, the
\* similarity-match grouping and the no-match grouping
C10_Witness ==
    /\ pc = "done"
    /\ ~CONFIG.onlyFullMatches
    /\ output.fullMatches.written
    /\ output.bestMatch.written
    /\ output.noMatch.written

\* the phase a run that ended on an error was in
FailedPhase == log[Len(log)]

\* what holds of a run that has ended on an error
FatalOutcome ==
    pc = "exited" =>
        /\ exitCode # 0
        /\ Len(stderr) = 1
        /\ ~AnyWritten
        /\ IsPrefix(log, PhaseOrder)
        /\ FailedPhase \in {"loadConfig", "validateConfig"} =>
              steamApps = <<>> /\ ~Entered("fetchSteamApps")

\* a fatal condition ends the run: the phases behind it are never entered
FatalConditionEndsRun ==
    /\ (Loaded /\ ~SchemaValid(CONFIG)) => ~Entered("fetchSteamApps")
    /\ (Loaded /\ CONFIG.fileType \notin {"csv", "txt"}) => ~Entered("fullMatch")
    /\ pc \in {"done", "exited"} <=> exitCode # -1
    /\ pc = "done" => exitCode = 0 /\ stderr = <<>>

\* C11: a run that meets a fatal condition (configuration not loadable or
\* not valid, catalog fetch failure, unsupported or unreadable input file)
\* prints a diagnostic and exits with a non-zero code, has written no output
\* grouping, has entered no phase twice, and takes no further step; on a
\* configuration failure the catalog has not been fetched.
C11_FatalEndsRun ==
    /\ [](FatalOutcome /\ FatalConditionEndsRun)
    /\ [][pc = "exited" => UNCHANGED vars]_vars

\* C11 witness: the input file cannot be read, after the configuration was
\* accepted and a catalog with entries was fetched
C11_Witness ==
    /\ pc = "exited"
    /\ FailedPhase = "importGameNames"
    /\ CONFIG.fileType \in SupportedFileTypes
    /\ steamApps # <<>>
    /\ stderr = <<"Error: Could not read input file.">>

\* the entries a grouping holds under a name
EntriesUnder(obj, name) == Occurrences(CreationOrder(obj), name)

\* a name-keyed grouping holds for the name what the grouping computed from
\* that name alone holds: the same single entry, or none
SameAsAlone(obj, alone, name) ==
    /\ EntriesUnder(obj, name) = Len(alone)
    /\ EntriesUnder(obj, name) <= 1
    /\ Len(alone) = 1 => ObjGet(obj, name) = alone[1][2]

Repeated(seq) == {x \in SetOf(seq) : Occurrences(seq, x) >= 2}

\* C12: a name that occurs more than once in the input is processed once
\* per occurrence (the unmatched and no-match lists hold it once per
\* occurrence), and each name-keyed grouping holds for it exactly the one
\* entry, with the value, that a single occurrence of the name produces.
C12_DuplicateNames ==
    /\ AfterFullMatch =>
          \A name \in Repeated(inputNames) :
              LET alone == FindSteamAppIdsFullMatch(<<name>>, steamApps)
              IN /\ SameAsAlone(steamIDsSingleFullMatch, alone.single, name)
                 /\ SameAsAlone(steamIDsMultipleFullMatches, alone.multiple, name)
                 /\ Occurrences(gameNames, name) =
                       Occurrences(inputNames, name) * Len(alone.remaining)
    /\ AfterBestMatch =>
          \A name \in Repeated(gameNames) :
              LET alone == FindSteamAppIdsBestMatch(<<name>>, steamApps, CONFIG)
              IN /\ SameAsAlone(steamIDsBestMatch, alone.best, name)
                 /\ Occurrences(steamIDsNoMatch, name) =
                       Occurrences(gameNames, name) * Len(alone.noMatch)

\* C12 witness: a name given twice has no exact match and is recorded once
\* as a similarity match
C12_Witness ==
    /\ AfterBestMatch
    /\ Len(inputNames) >= 2
    /\ inputNames[1] = inputNames[2]
    /\ ObjHas(steamIDsBestMatch, inputNames[1])
    /\ Len(steamIDsBestMatch) = 1

\* C12 witness of the exact stage: a name given twice has two exact matches
C12_WitnessExact ==
    /\ AfterFullMatch
    /\ Len(inputNames) >= 2
    /\ inputNames[1] = inputNames[2]
    /\ ObjHas(steamIDsMultipleFullMatches, inputNames[1])

UniqueExactNames == SetOf(OwnKeys(steamIDsSingleFullMatch))

AmbiguousExactNames == SetOf(OwnKeys(steamIDsMultipleFullMatches))

SimilarityNames == SetOf(OwnKeys(steamIDsBestMatch))

NoMatchNames == SetOf(steamIDsNoMatch)

\* C13: after a completed run with onlyFullMatches false on a catalog that
\* is not empty, the names of the four groupings are pairwise disjoint and
\* together are exactly the names of the input, and a name with an exact
\* match was not handed to similarity matching and is in neither the
\* similarity-match nor the no-match grouping.
C13_FourWayPartition ==
    (pc = "done" /\ ~CONFIG.onlyFullMatches /\ steamApps # <<>>) =>
        /\ UniqueExactNames \cup AmbiguousExactNames \cup SimilarityNames \cup NoMatchNames
              = SetOf(inputNames)
        /\ UniqueExactNames \cap AmbiguousExactNames = {}
        /\ UniqueExactNames \cap SimilarityNames = {}
        /\ UniqueExactNames \cap NoMatchNames = {}
        /\ AmbiguousExactNames \cap SimilarityNames = {}
        /\ AmbiguousExactNames \cap NoMatchNames = {}
        /\ SimilarityNames \cap NoMatchNames = {}
        /\ \A name \in SetOf(inputNames) :
              ~NoFullMatch(name) =>
                  /\ name \notin SetOf(gameNames)
                  /\ name \notin SimilarityNames \cup NoMatchNames

\* C13 witness: a completed run with an exact match next to a name that
\* went through similarity matching
C13_Witness ==
    /\ pc = "done"
    /\ ~CONFIG.onlyFullMatches
    /\ steamApps # <<>>
    /\ UniqueExactNames \cup AmbiguousExactNames # {}
    /\ SimilarityNames \cup NoMatchNames # {}

\* C14: the unique-exact, the ambiguous-exact and the no-match file are
\* written exactly when their grouping is not empty, the exact-match files
\* before similarity matching starts; the similarity-match file is written
\* on every completed run with onlyFullMatches false, also when the
\* grouping is empty; what is written is the grouping.
C14_WrittenWhenNotEmpty ==
    /\ output.fullMatches.written =>
          /\ steamIDsSingleFullMatch # EmptyObject
          /\ output.fullMatches.content = Stringify(steamIDsSingleFullMatch)
    /\ output.multipleFullMatches.written =>
          /\ steamIDsMultipleFullMatches # EmptyObject
          /\ output.multipleFullMatches.content = Stringify(steamIDsMultipleFullMatches)
    /\ output.noMatch.written =>
          /\ steamIDsNoMatch # <<>>
          /\ output.noMatch.content = steamIDsNoMatch
    /\ Entered("bestMatch") =>
          /\ output.fullMatches.written <=> steamIDsSingleFullMatch # EmptyObject
          /\ output.multipleFullMatches.written <=> steamIDsMultipleFullMatches # EmptyObject
    /\ (pc = "done" /\ ~CONFIG.onlyFullMatches) =>
          /\ output.bestMatch.written
          /\ output.bestMatch.content = Stringify(steamIDsBestMatch)
          /\ output.noMatch.written <=> steamIDsNoMatch # <<>>

\* C14 witness: a completed run whose similarity-match grouping is empty has
\* written the similarity-match file, next to the no-match and the
\* ambiguous-exact file, and has not written the unique-exact file
C14_Witness ==
    /\ pc = "done"
    /\ ~CONFIG.onlyFullMatches
    /\ steamIDsBestMatch = EmptyObject
    /\ output.bestMatch.written
    /\ output.noMatch.written
    /\ ~output.fullMatches.written
    /\ output.multipleFullMatches.written

====
